---- MODULE Spec2Model ----
(***************************************************************************)
(* Model of lab24/duckDB.py: the train database (tables groups and trains, *)
(* sequences type_st and train_st) and the operations create_db,           *)
(* add_train, select_all and select_by_num.                                *)
(*                                                                         *)
(* The connection never issues BEGIN, so every cursor.execute() is its own *)
(* transaction: a statement that succeeded stays in the database when a    *)
(* later statement of the same call is rejected.  A rejected statement     *)
(* that evaluated nextval() may or may not leave the sequence advanced     *)
(* (the counter is not rolled back in memory and is persisted only by a    *)
(* later checkpoint), so both outcomes are kept.                           *)
(***************************************************************************)
EXTENDS Integers, Sequences, FiniteSets

VARIABLES schema, groups, trains, type_st, train_st, calls, out, procs

vars == <<schema, groups, trains, type_st, train_st, calls, out, procs>>

\* Number of add_train calls a behaviour may make.
MaxCalls == 3

\* A Python value that may be None: <<>> is None, <<v>> is the value v.
None == <<>>

Some(v) == <<v>>

\* Argument values of the calls.
Punkts == {"Moscow", "Kazan"}

Nomers == {101, 102}

Times == {"14:30"}

\* Values of "select -s VALUE": the CLI hands the string over unparsed.
SelectArgs == {"101", "102", "103"}

PunktArgs == {Some(p) : p \in Punkts} \cup {None}

NomerArgs == {Some(n) : n \in Nomers} \cup {None}

TimeArgs == {Some(t) : t \in Times}

\* The two threads of the interleaved specification.
Procs == {1, 2}

Digit == <<"0", "1", "2", "3", "4", "5", "6", "7", "8", "9">>

\* An integer parameter stored into / compared with the TEXT column
\* train_title is cast to its decimal text.
RECURSIVE ToText(_)
ToText(n) ==
    IF n < 10 THEN Digit[n + 1]
    ELSE ToText(n \div 10) \o Digit[(n % 10) + 1]

\* CREATE SEQUENCE ... START 1
SeqStart == 1

NewSeq == [counter |-> SeqStart, last_value |-> 0]

\* nextval(): hands out the counter and advances it.
NextVal(seq) == [counter |-> seq.counter + 1, last_value |-> seq.counter]

\* Variant: reads the counter, the value nextval() would hand out next.
CurrValReadsCounter(seq) == seq.counter

\* currval(): the value nextval() handed out last.
CurrVal(seq) == seq.last_value

\* The sequence after a statement that called nextval() and was rejected.
AfterRejected(seq) == {seq, NextVal(seq)}

AllObjects == {"type_st", "train_st", "groups", "trains"}

\* The latest call and what it returned (create_db and add_train return None).
Returned(op, arg, rows) == [op |-> op, arg |-> arg, rows |-> rows]

NoRows == <<>>

NoOut == Returned("none", None, NoRows)

IdleProc == [pc |-> "idle", punkt |-> None, nomer |-> None, time |-> None,
             row |-> None, ref |-> 0]

Init ==
    /\ schema = {}
    /\ groups = {}
    /\ trains = {}
    /\ type_st = [counter |-> 0, last_value |-> 0]
    /\ train_st = [counter |-> 0, last_value |-> 0]
    /\ calls = <<>>
    /\ out = NoOut
    /\ procs = [p \in Procs |-> IdleProc]

AllIdle == \A p \in Procs : procs[p].pc = "idle"

(***************************************************************************)
(* create_db: four CREATE ... IF NOT EXISTS statements.                    *)
(***************************************************************************)
\* Variant: CREATE OR REPLACE SEQUENCE, which restarts an existing sequence.
CreateSeqReplace(name, seq) == NewSeq

CreateSeq(name, seq) == IF name \in schema THEN seq ELSE NewSeq

\* Variant: CREATE OR REPLACE TABLE, which empties an existing table.
CreateTableReplace(name, rows) == {}

CreateTable(name, rows) == IF name \in schema THEN rows ELSE {}

CreateDb ==
    /\ AllIdle
    /\ schema' = schema \cup AllObjects
    /\ type_st' = CreateSeq("type_st", type_st)
    /\ train_st' = CreateSeq("train_st", train_st)
    /\ groups' = CreateTable("groups", groups)
    /\ trains' = CreateTable("trains", trains)
    /\ out' = Returned("create_db", None, NoRows)
    /\ UNCHANGED <<calls, procs>>

(***************************************************************************)
(* The statements of add_train.                                            *)
(***************************************************************************)
\* Variant: the lookup compares the parameter with train_id.
LookupGroupById(gs, nomer) ==
    IF nomer = None THEN {}
    ELSE {g \in gs : g.train_id = nomer[1]}

\* SELECT train_id FROM groups WHERE train_title = ?   (NULL matches nothing)
LookupGroup(gs, nomer) ==
    IF nomer = None THEN {}
    ELSE {g \in gs : g.train_title = ToText(nomer[1])}

\* INSERT INTO groups VALUES (nextval('type_st'), ?): train_id PRIMARY KEY,
\* train_title NOT NULL.
GroupAccepted(gs, seq, nomer) ==
    /\ nomer # None
    /\ \A g \in gs : g.train_id # seq.counter

\* Variant: the title column is filled from the sequence value too.
GroupRowTitleFromSeq(seq, nomer) ==
    [train_id |-> seq.counter, train_title |-> ToText(seq.counter)]

GroupRow(seq, nomer) ==
    [train_id |-> seq.counter, train_title |-> ToText(nomer[1])]

\* INSERT INTO trains ...: train_punkt NOT NULL, train_id PRIMARY KEY,
\* FOREIGN KEY(train_id) REFERENCES groups(train_id).
TrainAccepted(gs, ts, seq, punkt) ==
    /\ punkt # None
    /\ \A t \in ts : t.train_id # seq.counter
    /\ \E g \in gs : g.train_id = seq.counter

TrainRow(seq, punkt, ref, time) ==
    [train_id |-> seq.counter, train_punkt |-> punkt[1],
     train_nomer |-> ref, train_time |-> time[1]]

Call(punkt, nomer, time, ok) ==
    [punkt |-> punkt, nomer |-> nomer, time |-> time, ok |-> ok]

\* The trains INSERT of a call whose group reference is ref, run against the
\* groups table gs; ends the call.
InsertTrain(gs, punkt, nomer, ref, time) ==
    IF TrainAccepted(gs, trains, train_st, punkt)
    THEN /\ trains' = trains \cup {TrainRow(train_st, punkt, ref, time)}
         /\ train_st' = NextVal(train_st)
         /\ calls' = Append(calls, Call(punkt, nomer, time, TRUE))
    ELSE /\ trains' = trains
         /\ train_st' \in AfterRejected(train_st)
         /\ calls' = Append(calls, Call(punkt, nomer, time, FALSE))

\* add_train as one uninterrupted call.
AddTrain(punkt, nomer, time) ==
    /\ AllIdle
    /\ schema = AllObjects
    /\ Len(calls) < MaxCalls
    /\ out' = Returned("add_train", None, NoRows)
    /\ UNCHANGED <<schema, procs>>
    /\ LET found == LookupGroup(groups, nomer) IN
       IF found = {}
       THEN IF GroupAccepted(groups, type_st, nomer)
            THEN /\ groups' = groups \cup {GroupRow(type_st, nomer)}
                 /\ type_st' = NextVal(type_st)
                 /\ InsertTrain(groups', punkt, nomer, CurrVal(type_st'), time)
            ELSE /\ type_st' \in AfterRejected(type_st)
                 /\ calls' = Append(calls, Call(punkt, nomer, time, FALSE))
                 /\ UNCHANGED <<groups, trains, train_st>>
       ELSE \E row \in found :
                /\ UNCHANGED <<groups, type_st>>
                /\ InsertTrain(groups, punkt, nomer, row.train_id, time)

AddTrainOp ==
    \E punkt \in PunktArgs, nomer \in NomerArgs, time \in TimeArgs :
        AddTrain(punkt, nomer, time)

(***************************************************************************)
(* The queries.  A result is a bag of rows: the rows come in no order and  *)
(* two records may project to the same row.                                *)
(***************************************************************************)
\* FROM trains INNER JOIN groups ON groups.train_id = trains.train_id
JoinRows(ts, gs) ==
    {j \in ts \X gs : j[2].train_id = j[1].train_id}

\* SELECT trains.train_punkt, groups.train_title, trains.train_time
Project(j) ==
    [punkt |-> j[1].train_punkt, nomer |-> j[2].train_title,
     time |-> j[1].train_time]

RowBag(js) ==
    [r \in {Project(j) : j \in js} |->
        Cardinality({j \in js : Project(j) = r})]

SelectAll(ts, gs) == RowBag(JoinRows(ts, gs))

\* Variant: the query without its WHERE clause.
SelectByNumNoWhere(ts, gs, nomer) == RowBag(JoinRows(ts, gs))

\* ... WHERE groups.train_title = ?
SelectByNum(ts, gs, nomer) ==
    RowBag({j \in JoinRows(ts, gs) : j[2].train_title = nomer})

SelectAllOp ==
    /\ AllIdle
    /\ schema = AllObjects
    /\ out' = Returned("select_all", None, SelectAll(trains, groups))
    /\ UNCHANGED <<schema, groups, trains, type_st, train_st, calls, procs>>

SelectByNumOp ==
    /\ AllIdle
    /\ schema = AllObjects
    /\ \E a \in SelectArgs :
        out' = Returned("select_by_num", Some(a),
                        SelectByNum(trains, groups, a))
    /\ UNCHANGED <<schema, groups, trains, type_st, train_st, calls, procs>>

Next == CreateDb \/ AddTrainOp \/ SelectAllOp \/ SelectByNumOp

Spec == Init /\ [][Next]_vars

(***************************************************************************)
(* add_train statement by statement, for calls of two threads that         *)
(* interleave.  Each thread holds its own connection; the database and     *)
(* its sequences are shared.                                               *)
(***************************************************************************)
Active == {p \in Procs : procs[p].pc # "idle"}

\* conn = duckdb.connect(...); cursor = conn.cursor()
Connect(p) ==
    /\ procs[p].pc = "idle"
    /\ schema = AllObjects
    /\ Len(calls) + Cardinality(Active) < MaxCalls
    /\ \E punkt \in PunktArgs, nomer \in NomerArgs, time \in TimeArgs :
        procs' = [procs EXCEPT ![p] =
                    [pc |-> "lookup", punkt |-> punkt, nomer |-> nomer,
                     time |-> time, row |-> None, ref |-> 0]]
    /\ UNCHANGED <<schema, groups, trains, type_st, train_st, calls, out>>

\* SELECT train_id FROM groups WHERE train_title = ?; row = fetchone()
Lookup(p) ==
    /\ procs[p].pc = "lookup"
    /\ LET found == LookupGroup(groups, procs[p].nomer) IN
       IF found = {}
       THEN procs' = [procs EXCEPT ![p].pc = "insert_group"]
       ELSE \E row \in found :
                procs' = [procs EXCEPT ![p].pc = "insert_train",
                                       ![p].row = Some(row.train_id),
                                       ![p].ref = row.train_id]
    /\ UNCHANGED <<schema, groups, trains, type_st, train_st, calls, out>>

\* row is None: INSERT INTO groups VALUES (nextval('type_st'), ?)
InsertGroupStep(p) ==
    /\ procs[p].pc = "insert_group"
    /\ IF GroupAccepted(groups, type_st, procs[p].nomer)
       THEN /\ groups' = groups \cup {GroupRow(type_st, procs[p].nomer)}
            /\ type_st' = NextVal(type_st)
            /\ procs' = [procs EXCEPT ![p].pc = "currval"]
            /\ UNCHANGED calls
       ELSE /\ type_st' \in AfterRejected(type_st)
            /\ calls' = Append(calls, Call(procs[p].punkt, procs[p].nomer,
                                           procs[p].time, FALSE))
            /\ procs' = [procs EXCEPT ![p] = IdleProc]
            /\ UNCHANGED groups
    /\ UNCHANGED <<schema, trains, train_st, out>>

\* SELECT currval('type_st'); nomer = sel[0]
CurrvalStep(p) ==
    /\ procs[p].pc = "currval"
    /\ procs' = [procs EXCEPT ![p].pc = "insert_train",
                              ![p].ref = CurrVal(type_st)]
    /\ UNCHANGED <<schema, groups, trains, type_st, train_st, calls, out>>

\* INSERT INTO trains ...; conn.commit(); conn.close()
InsertTrainStep(p) ==
    /\ procs[p].pc = "insert_train"
    /\ InsertTrain(groups, procs[p].punkt, procs[p].nomer, procs[p].ref,
                   procs[p].time)
    /\ procs' = [procs EXCEPT ![p] = IdleProc]
    /\ UNCHANGED <<schema, groups, type_st, out>>

ConnectOp == \E p \in Procs : Connect(p)

LookupOp == \E p \in Procs : Lookup(p)

InsertGroupOp == \E p \in Procs : InsertGroupStep(p)

CurrvalOp == \E p \in Procs : CurrvalStep(p)

InsertTrainOp == \E p \in Procs : InsertTrainStep(p)

NextConc ==
    \/ CreateDb
    \/ ConnectOp
    \/ LookupOp
    \/ InsertGroupOp
    \/ CurrvalOp
    \/ InsertTrainOp

SpecConc == Init /\ [][NextConc]_vars

(***************************************************************************)
(* Properties.                                                             *)
(***************************************************************************)
LastCall == calls[Len(calls)]

ValidCall(c) == c.punkt # None /\ c.nomer # None /\ c.time # None

\* The row a call is expected to show in a query result.
RowOf(c) ==
    [punkt |-> c.punkt[1], nomer |-> ToText(c.nomer[1]), time |-> c.time[1]]

\* The train numbers passed to add_train so far (None is no number).
NomersPassed ==
    {calls[i].nomer[1] : i \in {k \in DOMAIN calls : calls[k].nomer # None}}

\* The rows of a result whose train-number field is nomer.
RowsWithNomer(rows, nomer) ==
    [r \in {x \in DOMAIN rows : x.nomer = nomer} |-> rows[r]]

\* C1: add_train with valid arguments followed by select_all returns a
\* result that includes the row (punkt, nomer, time) of that call, also
\* when an earlier call used the same nomer.
C1_AddThenSelectAllShowsRow ==
    (out.op = "select_all" /\ calls # <<>> /\ ValidCall(LastCall))
        => RowOf(LastCall) \in DOMAIN out.rows

\* C2: after two add_train calls on a fresh database with the same nomer and
\* different destinations, both calls succeeded and select_by_num(nomer)
\* returns two rows, one per destination, both showing that train number.
C2_SecondCallReusesGroup ==
    (/\ out.op = "select_by_num"
     /\ Len(calls) = 2
     /\ ValidCall(calls[1]) /\ ValidCall(calls[2])
     /\ calls[1].nomer = calls[2].nomer
     /\ calls[1].punkt # calls[2].punkt
     /\ out.arg = Some(ToText(calls[1].nomer[1])))
        => /\ calls[1].ok /\ calls[2].ok
           /\ DOMAIN out.rows = {RowOf(calls[1]), RowOf(calls[2])}
           /\ \A r \in DOMAIN out.rows : out.rows[r] = 1

\* C3: select_by_num(nomer) returns exactly the rows of select_all whose
\* train-number field equals nomer, and no row for a nomer that was never
\* passed to add_train.
C3_SelectByNumIsFilterOfSelectAll ==
    out.op = "select_by_num"
        => /\ out.rows = RowsWithNomer(SelectAll(trains, groups), out.arg[1])
           /\ (out.arg[1] \notin {ToText(n) : n \in NomersPassed}
                  => out.rows = NoRows)

\* A select_by_num that returned rows and left rows of select_all out.
C3_Witness ==
    /\ out.op = "select_by_num"
    /\ out.rows # NoRows
    /\ DOMAIN out.rows # DOMAIN SelectAll(trains, groups)

\* C4: under sequential execution the groups table holds exactly one row per
\* distinct train number passed to add_train, whether the calls succeeded or
\* failed.
C4_OneGroupPerNomer ==
    /\ \A n \in NomersPassed :
          Cardinality({g \in groups : g.train_title = ToText(n)}) = 1
    /\ \A g \in groups : \E n \in NomersPassed : g.train_title = ToText(n)

\* A train number passed by two calls, one of them failed, with two train
\* numbers in the table.
C4_Witness ==
    /\ \E i, k \in DOMAIN calls :
          /\ i < k
          /\ calls[i].nomer # None
          /\ calls[i].nomer = calls[k].nomer
          /\ ~calls[k].ok
    /\ Cardinality(groups) = 2

\* C5: select_all returns one triple for every Train Record, and the train
\* number of the triple is the title of the Group the record references
\* through train_nomer.
C5_TripleShowsReferencedGroup ==
    /\ \A t \in trains :
          Cardinality({j \in JoinRows(trains, groups) : j[1] = t}) = 1
    /\ \A j \in JoinRows(trains, groups) : \A g \in groups :
          g.train_id = j[1].train_nomer => g.train_title = j[2].train_title

\* C6: train_nomer of every Train Record is the id of an existing Group row.
C6_NomerReferencesGroup ==
    \A t \in trains : \E g \in groups : g.train_id = t.train_nomer

\* A record whose train_nomer is not its own train_id, after a create_db.
C6_Witness ==
    /\ out.op = "create_db"
    /\ \E t \in trains : t.train_nomer # t.train_id

\* C7: create_db never fails, always leaves the full schema, and on an
\* existing database changes no Group row, no Train Record and no sequence.
C7_CreateDbIdempotent ==
    [][CreateDb =>
        /\ schema' = AllObjects
        /\ out'.op = "create_db"
        /\ schema = AllObjects =>
              UNCHANGED <<schema, groups, trains, type_st, train_st>>]_vars

\* create_db returned on a database that holds groups and records.
C7_Witness ==
    /\ out.op = "create_db"
    /\ groups # {}
    /\ trains # {}
    /\ type_st.counter > SeqStart
    /\ train_st.counter > SeqStart

\* C8: when two interleaved add_train calls for the same unseen nomer both
\* got no row from the lookup and both inserted a Group, the groups table
\* holds two rows with that title.
C8_RaceInsertsDuplicateGroup ==
    \A p, q \in Procs :
        (/\ p # q
         /\ procs[p].pc \in {"currval", "insert_train"}
         /\ procs[q].pc \in {"currval", "insert_train"}
         /\ procs[p].row = None /\ procs[q].row = None
         /\ procs[p].nomer = procs[q].nomer)
            => Cardinality({g \in groups :
                   g.train_title = ToText(procs[p].nomer[1])}) >= 2

\* Both calls are past their groups INSERT for the same nomer, and the table
\* holds two rows with the same title.
C8_Witness ==
    /\ \A p \in Procs : procs[p].pc \in {"currval", "insert_train"}
    /\ \A p \in Procs : procs[p].row = None
    /\ procs[1].nomer = procs[2].nomer
    /\ \E g, h \in groups :
          g.train_id # h.train_id /\ g.train_title = h.train_title

\* C9: rows are only ever added; a Group row is added only by an add_train
\* call whose nomer matched no existing title; select_all, select_by_num and
\* create_db leave both tables unchanged.
C9_RowsOnlyAdded ==
    [][/\ groups \subseteq groups'
       /\ trains \subseteq trains'
       /\ groups' # groups =>
             /\ out'.op = "add_train"
             /\ Len(calls') = Len(calls) + 1
             /\ calls'[Len(calls')].nomer # None
             /\ LookupGroup(groups, calls'[Len(calls')].nomer) = {}
             /\ \E g \in groups' :
                   /\ groups' = groups \cup {g}
                   /\ g.train_title = ToText(calls'[Len(calls')].nomer[1])
       /\ trains' # trains => out'.op = "add_train"
       /\ out'.op \in {"select_all", "select_by_num", "create_db"} =>
             groups' = groups /\ trains' = trains]_vars

\* A query returned after calls that added groups and records.
C9_Witness ==
    /\ out.op \in {"select_all", "select_by_num"}
    /\ Cardinality(groups) >= 2
    /\ trains # {}

\* C10: a failed add_train call leaves the groups and trains tables as they
\* were before the call.
C10_AddTrainAllOrNothing ==
    [][(Len(calls') = Len(calls) + 1 /\ ~calls'[Len(calls')].ok)
          => (groups' = groups /\ trains' = trains)]_vars

====
